---- MODULE Spec2Model ----
(***************************************************************************)
(* State-machine model of the JanSevak admin dashboard's client-side data  *)
(* synchronisation and view-state layer: the top-level App navigation      *)
(* state, the JharkhandHeatmap view with its asynchronous location loads,  *)
(* the fetch-state hooks, the StatisticsSection view and the ChatbotPage   *)
(* view, together with the ApiService gateway they call.                   *)
(***************************************************************************)
EXTENDS Integers, Sequences, FiniteSets, TLC

(***************************************************************************)
(* Bounds of the model.                                                    *)
(***************************************************************************)
\* Largest number of loadReportLocations invocations in flight at once.
MaxInflight == 2
\* Largest number of locations in one backend response.
MaxLocs == 2
\* Largest number of invocations in flight at once under FilterSpec.
MaxFilterLoads == 1
\* Largest number of invocations in flight at once under LocationsSpec.
MaxLocationLoads == 1
\* Largest number of fetches one hook instance starts (mount and refetch).
MaxHookFetches == 3
\* Longest text typed into the chat input.
MaxText == 2
\* Largest number of chat messages sent.
MaxSends == 2
\* Largest number of reports /reports answers the ComplaintsTable with.
MaxReports == 2
\* Largest number of lines of a chatbot reply given to formatComplaintText.
MaxReplyLines == 4
\* Largest number of checkConnection calls of one useBackendConnection
\* instance that are in flight at once.
MaxConnProbes == 2

(***************************************************************************)
(* JavaScript values, as far as the code inspects them.                    *)
(***************************************************************************)
Null == [t |-> "null"]
Undefined == [t |-> "undefined"]
NaN == [t |-> "nan"]
Num(n) == [t |-> "num", v |-> n]
Str(s) == [t |-> "str", s |-> s]

\* ToBoolean of a JS value (the `loc.lat &&` test).
Truthy(x) ==
    CASE x.t = "num" -> x.v # 0
      [] x.t = "str" -> x.s # ""
      [] OTHER -> FALSE

\* typeof x === "number"
TypeofNumber(x) == x.t \in {"num", "nan"}

\* isNaN(x), applied by the code only to values whose typeof is "number".
IsNaN(x) == x.t = "nan"

\* A finite numeric value: a number that is not NaN.
IsFiniteNumber(x) == x.t = "num"

\* The elements of a sequence.
Range(s) == {s[i] : i \in 1..Len(s)}

(***************************************************************************)
(* ApiService, the remote data gateway (services/api).                     *)
(***************************************************************************)
\* The filter dimensions, in the order getReportsByLocation appends them.
Dims == <<"category", "priority", "department", "status">>
DimSet == Range(Dims)

\* HTTP statuses the backend answers with in the model.
StatusSet == {200, 500}

\* response.ok
ResponseOk(status) == status >= 200 /\ status <= 299

\* What fetch() can deliver: a rejection (network failure), or a response
\* with a status and a JSON body {success, data, error}.
NetworkFailure == [net |-> "rejected"]
HttpResponse(status, success, data, error) ==
    [net |-> "response", status |-> status,
     body |-> [success |-> success, data |-> data, error |-> error]]

\* JSON payloads: an array of items, or a plain (non-array) object.
Array(items) == [t |-> "array", items |-> items]
Object(tag) == [t |-> "object", tag |-> tag]
IsArray(d) == d.t = "array"

\* Outcome of an async call: a thrown error (an Error carrying a message, or
\* a thrown value that is not an Error) or a returned value.
Throw(message) == [throw |-> TRUE, isError |-> TRUE, message |-> message]
ThrowNonError == [throw |-> TRUE, isError |-> FALSE, message |-> ""]
Return(value) == [throw |-> FALSE, value |-> value]

\* `HTTP error! status: ${response.status}`
HttpErrorMessage(status) == "HTTP error! status: " \o ToString(status)

\* fetchWithErrorHandling without its test of the envelope's success flag.
fetchWithErrorHandling_IgnoresSuccess(response) ==
    IF response.net = "rejected"
    THEN Throw("Failed to fetch")
    ELSE IF ~ResponseOk(response.status)
    THEN Throw(HttpErrorMessage(response.status))
    ELSE Return(response.body.data)

\* ApiService.fetchWithErrorHandling, from the point where fetch() settles.
fetchWithErrorHandling(response) ==
    IF response.net = "rejected"
    THEN Throw("Failed to fetch")
    ELSE IF ~ResponseOk(response.status)
    THEN Throw(HttpErrorMessage(response.status))
    ELSE IF ~response.body.success
    THEN Throw(IF response.body.error # "" THEN response.body.error
               ELSE "API request failed")
    ELSE Return(response.body.data)

\* The `filters` argument of getReportsByLocation: an object holding some of
\* the four dimensions, or undefined.  filters?.d is "" when d is absent.
NoFilters == [undefined |-> TRUE]
FilterField(filters, d) ==
    IF filters = NoFilters THEN ""
    ELSE IF d \in DOMAIN filters THEN filters[d] ELSE ""

\* The same with the truthiness test of each append left out.
RECURSIVE AppendParams_Unconditional(_, _, _)
AppendParams_Unconditional(filters, i, params) ==
    IF i > Len(Dims) THEN params
    ELSE AppendParams_Unconditional(filters, i + 1,
             Append(params, <<Dims[i], FilterField(filters, Dims[i])>>))

\* URLSearchParams built by getReportsByLocation: one append per dimension
\* whose value is truthy, in the order category, priority, department, status.
RECURSIVE AppendParams(_, _, _)
AppendParams(filters, i, params) ==
    IF i > Len(Dims) THEN params
    ELSE AppendParams(filters, i + 1,
             IF FilterField(filters, Dims[i]) # ""
             THEN Append(params, <<Dims[i], FilterField(filters, Dims[i])>>)
             ELSE params)

\* The request getReportsByLocation issues: the path and the query string
\* (present only when params.toString() is non-empty).
ReportsByLocationRequest(filters) ==
    LET params == AppendParams(filters, 1, <<>>)
    IN [path |-> "/reports/by-location",
        hasQuery |-> Len(params) > 0,
        params |-> params]

\* checkConnection as it would be without its catch: the rejection of fetch
\* reaches the caller.
checkConnectionOutcome_NoCatch(response) ==
    IF response.net = "rejected" THEN Throw("Failed to fetch")
    ELSE Return(ResponseOk(response.status))

\* ApiService.checkConnection as an async call: the try returns response.ok,
\* the catch turns whatever the try throws into false.
checkConnectionOutcome(response) ==
    LET try == IF response.net = "rejected" THEN Throw("Failed to fetch")
               ELSE Return(ResponseOk(response.status))
    IN IF try.throw THEN Return(FALSE) ELSE try

\* The boolean `await apiService.checkConnection()` evaluates to.
checkConnection(response) == checkConnectionOutcome(response).value

\* getReportsByLocation as it would be if a payload that is not an array
\* were raised to the caller instead of replaced by [].
getReportsByLocation_RaisesOnShape(response) ==
    LET r == fetchWithErrorHandling(response)
    IN IF r.throw THEN Return(Array(<<>>))
       ELSE IF ~IsArray(r.value) THEN Throw("Expected array")
       ELSE r

\* The envelope-wrapped data operations, each from the point where its
\* request settles.
getAllReports(response) == fetchWithErrorHandling(response)
getReportStats(response) == fetchWithErrorHandling(response)
getFilterOptions(response) == fetchWithErrorHandling(response)
getReportDetails(response) == fetchWithErrorHandling(response)
getReportsByLocation(response) ==
    LET r == fetchWithErrorHandling(response)
    IN IF r.throw THEN Return(Array(<<>>))
       ELSE IF ~IsArray(r.value) THEN Return(Array(<<>>))
       ELSE r

\* The operations of the Gateway that wrap their answer in an envelope, and
\* the outcome of each operation for a response.
EnvelopeOperations ==
    {"getAllReports", "getReportStats", "getReportsByLocation", "getFilterOptions",
     "getReportDetails"}
GatewayOperations == EnvelopeOperations \cup {"checkConnection"}
GatewayOutcome(operation, response) ==
    CASE operation = "getAllReports" -> getAllReports(response)
      [] operation = "getReportStats" -> getReportStats(response)
      [] operation = "getReportsByLocation" -> getReportsByLocation(response)
      [] operation = "getFilterOptions" -> getFilterOptions(response)
      [] operation = "getReportDetails" -> getReportDetails(response)
      [] operation = "checkConnection" -> checkConnectionOutcome(response)

(***************************************************************************)
(* Data the backend can answer with.                                       *)
(***************************************************************************)
\* Error texts of a {success: false} envelope ("" = no error field).
ErrorTexts == {"", "Database error"}

\* The responses of an envelope-wrapped endpoint whose payload is in dataSet.
Responses(dataSet) ==
    {NetworkFailure}
    \cup {HttpResponse(st, FALSE, Null, e) : st \in StatusSet, e \in ErrorTexts}
    \cup {HttpResponse(st, TRUE, Null, "") : st \in StatusSet \ {200}}
    \cup {HttpResponse(200, TRUE, d, "") : d \in dataSet}

\* The statuses and responses a Gateway operation is checked against on its
\* own: statuses inside and on both sides of the 2xx range, every envelope.
GatewayStatuses == {200, 201, 204, 299, 300, 304, 400, 404, 500, 503}
GatewayPayloads == {Null, Array(<<>>), Array(<<"r1">>), Object("payload")}
GatewayResponses ==
    {NetworkFailure}
    \cup {HttpResponse(st, su, d, e) : st \in GatewayStatuses, su \in BOOLEAN,
                                      d \in GatewayPayloads, e \in ErrorTexts}

\* The responses of the health endpoint (only the status is read).
ProbeResponses == {NetworkFailure} \cup {HttpResponse(st, TRUE, Null, "") : st \in StatusSet}

\* Locations the backend may send: two with valid coordinates, and one for
\* each way a coordinate can be off.
LocationPool ==
    << [report_id |-> "r1", lat |-> Num(23), lng |-> Num(85)],
       [report_id |-> "r2", lat |-> Num(24), lng |-> Num(86)],
       [report_id |-> "r3", lat |-> NaN, lng |-> Num(85)],
       [report_id |-> "r4", lat |-> Num(0), lng |-> Num(85)],
       [report_id |-> "r5", lat |-> Num(23), lng |-> Str("85.3")],
       [report_id |-> "r6", lat |-> Undefined, lng |-> Num(85)] >>

\* Location lists of at most MaxLocs entries (pool order, no repetition).
LocationLists ==
    LET idx == UNION {[1..n -> 1..Len(LocationPool)] : n \in 0..MaxLocs}
        inc == {f \in idx : \A i \in 1..Len(f) : \A j \in 1..Len(f) : i < j => f[i] < f[j]}
    IN {[i \in 1..Len(f) |-> LocationPool[f[i]]] : f \in inc}

\* Reports the backend may list, and the report lists of at most MaxReports
\* entries (pool order, no repetition).
ReportPool ==
    << [report_id |-> "r7", address_extracted |-> "Dhanbad"],
       [report_id |-> "r8", address_extracted |-> "Bokaro"],
       [report_id |-> "r9", address_extracted |-> "Ranchi"] >>
ReportLists ==
    LET idx == UNION {[1..n -> 1..Len(ReportPool)] : n \in 0..MaxReports}
        inc == {f \in idx : \A i \in 1..Len(f) : \A j \in 1..Len(f) : i < j => f[i] < f[j]}
    IN {[i \in 1..Len(f) |-> ReportPool[f[i]]] : f \in inc}

\* Payloads of /reports/by-location: an array of locations, or a non-array.
LocationPayloads == {Array(l) : l \in LocationLists} \cup {Object("unexpected")}

\* The payload of /filter-options, and the values it lists as available.
FilterOptionsData == Object("FilterOptions")
Available ==
    [category |-> {"road_infrastructure", "water_sanitation"},
     priority |-> {"high"},
     department |-> {"public_works"},
     status |-> {"resolved"}]

(***************************************************************************)
(* State.                                                                  *)
(***************************************************************************)
VARIABLES
    \* App: useState("home"), useState<Complaint | null>(null)
    activeTab, selectedComplaint,
    \* JharkhandHeatmap: its useState cells (popupComplaint is the view's own
    \* selectedComplaint, the popup selection)
    locations, loading, isConnected, filterOptions,
    selectedCategory, selectedPriority, selectedDepartment, selectedStatus,
    popupComplaint,
    \* JharkhandHeatmap: the loadReportLocations invocations in flight
    loads,
    \* history: the first location request issued since the view mounted
    firstRequest,
    \* JharkhandHeatmap: whether the interval of its mount effect is registered
    refreshInterval,
    \* a useBackendConnection instance: whether its owner is mounted, its
    \* useState cells, whether its interval is registered and the number of
    \* checkConnection calls in flight
    connMounted, connIsConnected, connChecking, connInterval, connPending,
    \* StatisticsSection: its useState cells, and whether its fetch is pending
    stats, statsLoading, statsError, statsPending,
    \* ComplaintsTable: its useState cells, and whether its fetch is pending
    tableReports, tableLoading, tableError, tablePending,
    \* a fetch-state hook instance: which hook it is (useReports or
    \* useReportStats), its useState cells (hookData is `reports` or `stats`),
    \* the fetches in flight and the number of fetches started
    hook, hookData, hookLoading, hookError, hookFetches, hookIssued,
    \* ChatbotPage: its useState cells, the chat request in flight and the
    \* number of messages sent
    messages, inputMessage, isLoading, chatRequest, chatSent,
    \* history: the operation that produced the current state
    lastOp

statsVars == <<stats, statsLoading, statsError, statsPending>>
tableVars == <<tableReports, tableLoading, tableError, tablePending>>
hookVars == <<hook, hookData, hookLoading, hookError, hookFetches, hookIssued>>
chatVars == <<messages, inputMessage, isLoading, chatRequest, chatSent>>
appVars == <<activeTab, selectedComplaint>>
hmVars == <<locations, loading, isConnected, filterOptions,
            selectedCategory, selectedPriority, selectedDepartment, selectedStatus,
            popupComplaint, loads, firstRequest, refreshInterval>>
connVars == <<connMounted, connIsConnected, connChecking, connInterval, connPending>>
vars == <<appVars, hmVars, statsVars, tableVars, hookVars, chatVars, connVars, lastOp>>
outsideHeatmap == <<appVars, statsVars, tableVars, hookVars, chatVars, connVars>>

(***************************************************************************)
(* JharkhandHeatmap: loadReportLocations and its pieces.                   *)
(***************************************************************************)
\* The four filter cells as one record, and the selection of a first render.
CurrentSelection ==
    [category |-> selectedCategory, priority |-> selectedPriority,
     department |-> selectedDepartment, status |-> selectedStatus]
EmptySelection == [d \in DimSet |-> ""]

\* "Build filter object": the dimensions copied are those whose captured
\* value is truthy, and only when applyFilters is set.
BuildFilters(applyFilters, sel) ==
    IF applyFilters
    THEN [d \in {x \in DimSet : sel[x] # ""} |-> sel[d]]
    ELSE [d \in {} |-> ""]

\* Object.keys(filters).length > 0 ? filters : undefined
FiltersArgument(filters) ==
    IF DOMAIN filters # {} THEN filters ELSE NoFilters

\* One invocation of loadReportLocations.  applyFilters is its argument;
\* sel and optsNull are the filter cells and `!filterOptions` of the render
\* whose closure the invocation runs in; pc is the await it is suspended
\* at; request is the location request once it has been issued.
NewLoad(trigger, applyFilters, sel, optsNull) ==
    [trigger |-> trigger, applyFilters |-> applyFilters, sel |-> sel,
     optsNull |-> optsNull, pc |-> "probe", request |-> Null]

\* The location request an invocation issues.
LocationRequestOf(load) ==
    ReportsByLocationRequest(
        FiltersArgument(BuildFilters(load.applyFilters, load.sel)))

\* The validLocations filter.
ValidLocation(loc) ==
    /\ Truthy(loc.lat)
    /\ Truthy(loc.lng)
    /\ TypeofNumber(loc.lat)
    /\ TypeofNumber(loc.lng)
    /\ ~IsNaN(loc.lat)
    /\ ~IsNaN(loc.lng)
validLocations(reportLocations) == SelectSeq(reportLocations, ValidLocation)

\* The same without the else branch that empties the list.
LocationsAfterLoad_KeepsOnEmpty(reportLocations) ==
    IF Len(reportLocations) > 0 THEN validLocations(reportLocations) ELSE locations

\* What setLocations receives once getReportsByLocation has resolved.
LocationsAfterLoad(reportLocations) ==
    IF Len(reportLocations) > 0 THEN validLocations(reportLocations) ELSE <<>>

\* A sequence without its i-th element.
RemoveAt(s, i) == [j \in 1..(Len(s) - 1) |-> IF j < i THEN s[j] ELSE s[j + 1]]

\* Whether renderContent shows a JharkhandHeatmap.
HeatmapTabs == {"home", "map"}
HeatmapShown(tab, sel) == sel = Null /\ tab \in HeatmapTabs
Mounted == HeatmapShown(activeTab, selectedComplaint)

\* The filter controls as they would be without their render condition.
FilterControlsShown_Always == Mounted

\* Whether the filter controls are rendered.
FilterControlsShown == Mounted /\ filterOptions # Null /\ isConnected

\* The view's cells as useState initialises them.
InitialCells ==
    /\ locations' = <<>>
    /\ loading' = TRUE
    /\ isConnected' = FALSE
    /\ filterOptions' = Null
    /\ selectedCategory' = ""
    /\ selectedPriority' = ""
    /\ selectedDepartment' = ""
    /\ selectedStatus' = ""
    /\ popupComplaint' = Null
    /\ firstRequest' = Null

\* Mount: first render, then the mount effect calls loadReportLocations()
\* (setLoading(true), health probe issued) and starts the interval; the
\* filter effect finds isConnected false and does nothing.
MountHeatmap ==
    /\ InitialCells
    /\ refreshInterval' = TRUE
    /\ loads' = <<NewLoad("mount", FALSE, EmptySelection, TRUE)>>

\* Unmount: the cells are gone, the interval is cleared, and the state
\* updates of invocations still in flight no longer reach any view.
UnmountHeatmap ==
    /\ InitialCells
    /\ refreshInterval' = FALSE
    /\ loads' = <<>>

\* The await of checkConnection as it would settle if the invocation went on
\* to its requests whatever the probe reported.
ProbeSettles_IgnoresProbe(i, response) ==
    LET load == loads[i]
        connected == checkConnection(response)
        request == LocationRequestOf(load)
    IN /\ Mounted
       /\ load.pc = "probe"
       /\ isConnected' = connected
       /\ IF load.optsNull
          THEN /\ loads' = [loads EXCEPT ![i].pc = "options"]
               /\ UNCHANGED <<loading, firstRequest>>
          ELSE /\ loads' = [loads EXCEPT ![i].pc = "locations", ![i].request = request]
               /\ firstRequest' = IF firstRequest = Null THEN request ELSE firstRequest
               /\ UNCHANGED loading
       /\ lastOp' = [op |-> "probeSettled", connected |-> connected]
       /\ UNCHANGED <<outsideHeatmap, refreshInterval, locations, filterOptions, selectedCategory,
                      selectedPriority, selectedDepartment, selectedStatus,
                      popupComplaint>>

\* Await of checkConnection settles for invocation i.
ProbeSettles(i, response) ==
    LET load == loads[i]
        connected == checkConnection(response)
        request == LocationRequestOf(load)
    IN /\ Mounted
       /\ load.pc = "probe"
       /\ isConnected' = connected
       /\ IF ~connected
          THEN /\ loading' = FALSE
               /\ loads' = RemoveAt(loads, i)
               /\ UNCHANGED firstRequest
          ELSE IF load.optsNull
          THEN /\ loads' = [loads EXCEPT ![i].pc = "options"]
               /\ UNCHANGED <<loading, firstRequest>>
          ELSE /\ loads' = [loads EXCEPT ![i].pc = "locations", ![i].request = request]
               /\ firstRequest' = IF firstRequest = Null THEN request ELSE firstRequest
               /\ UNCHANGED loading
       /\ lastOp' = [op |-> "probeSettled", connected |-> connected]
       /\ UNCHANGED <<outsideHeatmap, refreshInterval, locations, filterOptions, selectedCategory,
                      selectedPriority, selectedDepartment, selectedStatus,
                      popupComplaint>>

\* The await of getFilterOptions as it would settle without the inner
\* try/catch: a failure reaches the outer catch, which empties the
\* locations and ends the invocation.
OptionsSettle_FailureAborts(i, response) ==
    LET load == loads[i]
        r == fetchWithErrorHandling(response)
        request == LocationRequestOf(load)
    IN /\ Mounted
       /\ load.pc = "options"
       /\ filterOptions' = IF r.throw THEN filterOptions ELSE r.value
       /\ IF r.throw
          THEN /\ locations' = <<>>
               /\ loading' = FALSE
               /\ loads' = RemoveAt(loads, i)
               /\ UNCHANGED firstRequest
          ELSE /\ loads' = [loads EXCEPT ![i].pc = "locations", ![i].request = request]
               /\ firstRequest' = IF firstRequest = Null THEN request ELSE firstRequest
               /\ UNCHANGED <<locations, loading>>
       /\ lastOp' = [op |-> "optionsSettled", failed |-> r.throw]
       /\ UNCHANGED <<outsideHeatmap, refreshInterval, isConnected, selectedCategory,
                      selectedPriority, selectedDepartment, selectedStatus,
                      popupComplaint>>

\* Await of getFilterOptions settles for invocation i; the location request
\* follows in the same turn whether or not the options arrived.
OptionsSettle(i, response) ==
    LET load == loads[i]
        r == fetchWithErrorHandling(response)
        request == LocationRequestOf(load)
    IN /\ Mounted
       /\ load.pc = "options"
       /\ filterOptions' = IF r.throw THEN filterOptions ELSE r.value
       /\ loads' = [loads EXCEPT ![i].pc = "locations", ![i].request = request]
       /\ firstRequest' = IF firstRequest = Null THEN request ELSE firstRequest
       /\ lastOp' = [op |-> "optionsSettled", failed |-> r.throw]
       /\ UNCHANGED <<outsideHeatmap, refreshInterval, locations, loading, isConnected, selectedCategory,
                      selectedPriority, selectedDepartment, selectedStatus,
                      popupComplaint>>

\* Await of getReportsByLocation settles for invocation i: the list it
\* resolves with is filtered and stored, the catch stores [] should it
\* raise, and the finally resets loading.
LocationsSettle(i, response) ==
    LET load == loads[i]
        r == fetchWithErrorHandling(response)
        outcome == getReportsByLocation(response)
        reportLocations == IF outcome.throw THEN <<>> ELSE outcome.value.items
    IN /\ Mounted
       /\ load.pc = "locations"
       /\ locations' = IF outcome.throw THEN <<>> ELSE LocationsAfterLoad(reportLocations)
       /\ loading' = FALSE
       /\ loads' = RemoveAt(loads, i)
       /\ lastOp' = [op |-> "locationsSettled",
                     failed |-> r.throw,
                     arrayPayload |-> IF r.throw THEN FALSE ELSE IsArray(r.value),
                     raised |-> outcome.throw,
                     fetched |-> reportLocations,
                     before |-> locations]
       /\ UNCHANGED <<outsideHeatmap, refreshInterval, isConnected, filterOptions, selectedCategory,
                      selectedPriority, selectedDepartment, selectedStatus,
                      popupComplaint, firstRequest>>

\* A call of loadReportLocations from a handler, an effect or the interval:
\* setLoading(true), then the health probe is awaited.
StartLoad(load) ==
    /\ loading' = TRUE
    /\ loads' = Append(loads, load)

\* The interval callback registered by the mount effect.  It calls the
\* loadReportLocations of the first render, whose closure holds that
\* render's cells: empty filter selections and filterOptions = null.
TimerTick ==
    /\ refreshInterval
    /\ StartLoad(NewLoad("tick", TRUE, EmptySelection, TRUE))
    /\ lastOp' = [op |-> "tick"]
    /\ UNCHANGED <<outsideHeatmap, refreshInterval, locations, isConnected, filterOptions, selectedCategory,
                   selectedPriority, selectedDepartment, selectedStatus,
                   popupComplaint, firstRequest>>

\* The filter effect, run after a render in which a filter cell changed:
\* if (isConnected) loadReportLocations(true), in that render's closure.
\* The filter effect as it would be if it ran in the closure of the render
\* before the change.
FilterEffect_StaleClosure(sel) ==
    IF isConnected
    THEN StartLoad(NewLoad("filter", TRUE, CurrentSelection, filterOptions = Null))
    ELSE UNCHANGED <<loading, loads>>

FilterEffect(sel) ==
    IF isConnected
    THEN StartLoad(NewLoad("filter", TRUE, sel, filterOptions = Null))
    ELSE UNCHANGED <<loading, loads>>

\* onChange of one of the four selects: the cell is set, the view renders
\* again and the filter effect runs.
SetFilter(d, v) ==
    LET sel == [CurrentSelection EXCEPT ![d] = v]
    IN /\ FilterControlsShown
       /\ v \in Available[d] \cup {""}
       /\ v # CurrentSelection[d]
       /\ selectedCategory' = sel.category
       /\ selectedPriority' = sel.priority
       /\ selectedDepartment' = sel.department
       /\ selectedStatus' = sel.status
       /\ FilterEffect(sel)
       /\ lastOp' = [op |-> "setFilter", dim |-> d]
       /\ UNCHANGED <<outsideHeatmap, refreshInterval, locations, isConnected, filterOptions,
                      popupComplaint, firstRequest>>

\* clearFilters: the four cells are reset in one batch; the effect runs
\* when that changed at least one of them.
clearFilters ==
    /\ FilterControlsShown
    /\ CurrentSelection # EmptySelection
    /\ selectedCategory' = ""
    /\ selectedPriority' = ""
    /\ selectedDepartment' = ""
    /\ selectedStatus' = ""
    /\ FilterEffect(EmptySelection)
    /\ lastOp' = [op |-> "clearFilters"]
    /\ UNCHANGED <<outsideHeatmap, refreshInterval, locations, isConnected, filterOptions,
                   popupComplaint, firstRequest>>

\* refreshLocations, the Refresh button (disabled while loading).
refreshLocations ==
    /\ Mounted
    /\ ~loading
    /\ StartLoad(NewLoad("refresh", TRUE, CurrentSelection, filterOptions = Null))
    /\ lastOp' = [op |-> "refresh"]
    /\ UNCHANGED <<outsideHeatmap, refreshInterval, locations, isConnected, filterOptions, selectedCategory,
                   selectedPriority, selectedDepartment, selectedStatus,
                   popupComplaint, firstRequest>>

\* handleMarkerClick: a marker of the rendered map is clicked (the map is
\* rendered only while loading is false).
handleMarkerClick(location) ==
    /\ Mounted
    /\ ~loading
    /\ location \in Range(locations)
    /\ popupComplaint' = location
    /\ lastOp' = [op |-> "handleMarkerClick"]
    /\ UNCHANGED <<outsideHeatmap, refreshInterval, locations, loading, isConnected, filterOptions,
                   selectedCategory, selectedPriority, selectedDepartment,
                   selectedStatus, loads, firstRequest>>

\* The popup's close button: setSelectedComplaint(null).
ClosePopup ==
    /\ Mounted
    /\ ~loading
    /\ popupComplaint # Null
    /\ popupComplaint' = Null
    /\ lastOp' = [op |-> "closePopup"]
    /\ UNCHANGED <<outsideHeatmap, refreshInterval, locations, loading, isConnected, filterOptions,
                   selectedCategory, selectedPriority, selectedDepartment,
                   selectedStatus, loads, firstRequest>>

(***************************************************************************)
(* StatisticsSection.                                                      *)
(***************************************************************************)
\* ComprehensiveStats payloads of /reports/stats: the values of the four
\* cards and the category_data series (name, value).
StatsPayload(total, resolved, pending, avg, categories) ==
    [t |-> "object",
     cards |-> [total_complaints |-> total, resolved_this_month |-> resolved,
                pending_review |-> pending, avg_resolution_time |-> avg],
     category_data |-> categories]
StatsPayloads ==
    {StatsPayload(Num(5), Num(2), Num(3), Str("1.5 days"),
                  <<[name |-> "PWD", value |-> 60], [name |-> "Water", value |-> 40]>>),
     StatsPayload(Num(1), Num(0), Num(1), Str("0.0 days"),
                  <<[name |-> "PWD", value |-> 100]>>)}

\* The "Fallback to mock data" object of the catch branch.
FallbackStats ==
    StatsPayload(Num(0), Num(0), Num(0), Str("0.0 days"),
                 <<[name |-> "No Data", value |-> 100]>>)

\* ApiService.getComprehensiveStats
getComprehensiveStats(response) == fetchWithErrorHandling(response)

\* Whether renderContent shows a StatisticsSection (the home tab).
StatsShown(tab, sel) == sel = Null /\ tab = "home"
StatsMounted == StatsShown(activeTab, selectedComplaint)

\* Mount: useState initial values, then the effect calls fetchStats().
MountStats ==
    /\ stats' = Null
    /\ statsLoading' = TRUE
    /\ statsError' = Null
    /\ statsPending' = TRUE
UnmountStats ==
    /\ stats' = Null
    /\ statsLoading' = TRUE
    /\ statsError' = Null
    /\ statsPending' = FALSE

\* The await in fetchStats settles.
StatsSettle(response) ==
    LET r == getComprehensiveStats(response)
    IN /\ StatsMounted
       /\ statsPending
       /\ IF r.throw
          THEN /\ statsError' = Str("Failed to load statistics")
               /\ stats' = FallbackStats
          ELSE /\ stats' = r.value
               /\ statsError' = Null
       /\ statsLoading' = FALSE
       /\ statsPending' = FALSE
       /\ lastOp' = [op |-> "statsSettled", failed |-> r.throw]
       /\ UNCHANGED <<appVars, hmVars, tableVars, connVars, hookVars, chatVars>>

\* What the component returns: the loading skeleton, the error branch
\* (`error || !stats`), or the cards and charts of stats.
StatisticsRender ==
    IF statsLoading THEN [view |-> "skeleton"]
    ELSE IF statsError # Null \/ stats = Null
    THEN [view |-> "error", message |-> statsError]
    ELSE [view |-> "cards",
          statsCards |-> <<stats.cards.total_complaints, stats.cards.resolved_this_month,
                           stats.cards.pending_review, stats.cards.avg_resolution_time>>,
          categories |-> stats.category_data]

(***************************************************************************)
(* ComplaintsTable.                                                        *)
(***************************************************************************)
\* Whether renderContent shows a ComplaintsTable (the complaints tab).
TableShown(tab, sel) == sel = Null /\ tab = "complaints"
TableMounted == TableShown(activeTab, selectedComplaint)

\* Mount: useState initial values, then the effect calls fetchReports()
\* (setLoading(true), setError("")).
MountTable ==
    /\ tableReports' = <<>>
    /\ tableLoading' = TRUE
    /\ tableError' = ""
    /\ tablePending' = TRUE
UnmountTable ==
    /\ tableReports' = <<>>
    /\ tableLoading' = TRUE
    /\ tableError' = ""
    /\ tablePending' = FALSE

\* The await in fetchReports settles: setReports(data), or the fixed error
\* text in the catch branch; finally setLoading(false).
TableSettle(response) ==
    LET r == getAllReports(response)
    IN /\ TableMounted
       /\ tablePending
       /\ tableReports' = IF r.throw THEN tableReports ELSE r.value.items
       /\ tableError' = IF r.throw THEN "Failed to fetch complaints. Please try again."
                        ELSE tableError
       /\ tableLoading' = FALSE
       /\ tablePending' = FALSE
       /\ lastOp' = [op |-> "tableSettled", failed |-> r.throw]
       /\ UNCHANGED <<appVars, hmVars, statsVars, hookVars, chatVars, connVars>>

\* const complaints = reports.map(...): a Report in Complaint format.
ReportToComplaint(report) ==
    [id |-> report.report_id, location |-> <<Str(report.address_extracted)>>]
complaints == [i \in 1..Len(tableReports) |-> ReportToComplaint(tableReports[i])]

\* The body of the table without its placeholder row.
TableBody_NoPlaceholder(list) ==
    [i \in 1..Len(list) |-> [row |-> "data", complaint |-> list[i]]]

\* <TableBody>: the "No complaints found" row when complaints is empty, one
\* row per complaint otherwise.
TableBody(list) ==
    IF Len(list) = 0
    THEN <<[row |-> "placeholder", text |-> "No complaints found"]>>
    ELSE [i \in 1..Len(list) |-> [row |-> "data", complaint |-> list[i]]]

\* What the Card of the table holds: the loading text, the error with its
\* Retry button, or the table.
TableRender ==
    IF tableLoading THEN [view |-> "loading"]
    ELSE IF tableError # "" THEN [view |-> "error", message |-> tableError]
    ELSE [view |-> "table", rows |-> TableBody(complaints)]

\* The Retry button of the error branch: onClick={fetchReports}.
TableRetry ==
    /\ TableMounted
    /\ TableRender.view = "error"
    /\ tableLoading' = TRUE
    /\ tableError' = ""
    /\ tablePending' = TRUE
    /\ lastOp' = [op |-> "tableRetry"]
    /\ UNCHANGED <<appVars, hmVars, statsVars, hookVars, chatVars, connVars, tableReports>>

(***************************************************************************)
(* App: the cross-view navigation state.                                   *)
(***************************************************************************)
\* The ids of Navigation's navItems.
Tabs == {"home", "map", "complaints", "chatbot", "resources"}

\* The App renders again with the given cells: renderContent keeps the
\* JharkhandHeatmap and the StatisticsSection it already shows, mounts new
\* ones, or shows none.
Render(tab, sel) ==
    /\ activeTab' = tab
    /\ selectedComplaint' = sel
    /\ IF HeatmapShown(tab, sel)
       THEN IF Mounted /\ tab = activeTab
            THEN UNCHANGED hmVars
            ELSE MountHeatmap
       ELSE UnmountHeatmap
    /\ IF StatsShown(tab, sel)
       THEN IF StatsMounted
            THEN UNCHANGED statsVars
            ELSE MountStats
       ELSE UnmountStats
    /\ IF TableShown(tab, sel)
       THEN IF TableMounted
            THEN UNCHANGED tableVars
            ELSE MountTable
       ELSE UnmountTable
    /\ UNCHANGED <<hookVars, chatVars, connVars>>

handleComplaintClick(complaint) ==
    /\ Render(activeTab, complaint)
    /\ lastOp' = [op |-> "handleComplaintClick"]

\* handleBackToDashboard as it would be without its setActiveTab("home").
handleBackToDashboard_KeepsTab ==
    /\ selectedComplaint # Null
    /\ Render(activeTab, Null)
    /\ lastOp' = [op |-> "handleBackToDashboard", from |-> activeTab]

\* handleBackToDashboard, the onBack of ComplaintDetails.
handleBackToDashboard ==
    /\ selectedComplaint # Null
    /\ Render("home", Null)
    /\ lastOp' = [op |-> "handleBackToDashboard", from |-> activeTab]

\* handleTabChange as it would be without its setSelectedComplaint(null).
handleTabChange_KeepsSelection(tab) ==
    /\ Render(tab, selectedComplaint)
    /\ lastOp' = [op |-> "handleTabChange", tab |-> tab,
                  hadSelection |-> selectedComplaint # Null]

handleTabChange(tab) ==
    /\ Render(tab, Null)
    /\ lastOp' = [op |-> "handleTabChange", tab |-> tab,
                  hadSelection |-> selectedComplaint # Null]

\* renderContent returns the ComplaintDetails view.
DetailShown == selectedComplaint # Null

\* renderContent with the switch on the tab taken first and the selection
\* looked at on the home tab only.
renderContent_TabFirst(tab, sel) ==
    CASE tab = "home" -> IF sel # Null THEN "ComplaintDetails" ELSE "Home"
      [] tab = "map" -> "Map"
      [] tab = "complaints" -> "ComplaintsTable"
      [] tab = "chatbot" -> "ChatbotPage"
      [] tab = "resources" -> "ResourcesPage"
      [] OTHER -> "Page not found"

\* renderContent: the element it returns for the App's two cells.  A
\* Complaint object is truthy, null is not.
renderContent(tab, sel) ==
    IF sel # Null THEN "ComplaintDetails"
    ELSE CASE tab = "home" -> "Home"
           [] tab = "map" -> "Map"
           [] tab = "complaints" -> "ComplaintsTable"
           [] tab = "chatbot" -> "ChatbotPage"
           [] tab = "resources" -> "ResourcesPage"
           [] OTHER -> "Page not found"

\* The Complaint handleViewFullDetails builds from a Location.
ComplaintFromLocation(location) ==
    [id |-> location.report_id, location |-> <<location.lat, location.lng>>]

\* handleViewFullDetails as it would be if it built the complaint from the
\* first location held instead of the popup's.
handleViewFullDetails_FirstLocation ==
    /\ Mounted
    /\ ~loading
    /\ popupComplaint # Null
    /\ popupComplaint.report_id # ""
    /\ handleComplaintClick(ComplaintFromLocation(locations[1]))

\* handleViewFullDetails, the popup's "View Full Details" button.
handleViewFullDetails ==
    /\ Mounted
    /\ ~loading
    /\ popupComplaint # Null
    /\ popupComplaint.report_id # ""
    /\ handleComplaintClick(ComplaintFromLocation(popupComplaint))

\* The complaints a row of the ComplaintsTable can hand to onViewComplaint:
\* those of the data rows it shows.
TableComplaints ==
    IF TableMounted /\ TableRender.view = "table"
    THEN {row.complaint : row \in {x \in Range(TableRender.rows) : x.row = "data"}}
    ELSE {}

\* A row's view action in the ComplaintsTable.
ViewComplaint(complaint) ==
    /\ selectedComplaint = Null
    /\ activeTab = "complaints"
    /\ handleComplaintClick(complaint)

\* The Retry button of the statistics error branch: window.location.reload()
\* loads the page again, so the App and its views start afresh.
StatsRetry ==
    /\ StatsMounted
    /\ StatisticsRender.view = "error"
    /\ activeTab' = "home"
    /\ selectedComplaint' = Null
    /\ MountHeatmap
    /\ MountStats
    /\ UnmountTable
    /\ lastOp' = [op |-> "reload"]
    /\ UNCHANGED <<hookVars, chatVars, connVars>>

(***************************************************************************)
(* The fetch-state hooks useReports and useReportStats.                    *)
(***************************************************************************)
Hooks == {"useReports", "useReportStats"}

\* useState<Report[]>([]) and useState<ReportStats | null>(null)
HookInitialData(h) == IF h = "useReports" THEN Array(<<>>) ELSE Null

\* The payloads of /reports and of /reports/stats.
HookPayloads(h) ==
    IF h = "useReports"
    THEN {Array(<<>>), Array(<<"r1">>), Array(<<"r1", "r2">>)}
    ELSE {Object("statsA"), Object("statsB")}

\* The fallback strings of the two catch branches.
HookFallbackMessage(h) ==
    IF h = "useReports" THEN "Failed to fetch reports" ELSE "Failed to fetch statistics"

\* How apiService.getAllReports / getReportStats can settle: as
\* fetchWithErrorHandling does, or rejected with a value that is not an
\* Error (which the catch branches provide for).
HookOutcomes(h) ==
    {fetchWithErrorHandling(r) : r \in Responses(HookPayloads(h))} \cup {ThrowNonError}

\* err instanceof Error ? err.message : "Failed to fetch ..."
HookErrorMessage(h, r) ==
    IF r.isError THEN Str(r.message) ELSE Str(HookFallbackMessage(h))

\* The data cell after a fetch has settled, with a catch branch that also
\* resets the data.
HookDataAfter_ResetsOnFailure(r) ==
    IF r.throw THEN HookInitialData(hook) ELSE r.value

\* The data cell after a fetch has settled if the first payload stored were
\* kept against later ones.
HookDataAfter_FirstWins(r) ==
    IF r.throw \/ hookData # HookInitialData(hook) THEN hookData ELSE r.value

\* The data cell after a fetch has settled: setReports(data) / setStats(data)
\* on success, untouched in the catch branch.
HookDataAfter(r) ==
    IF r.throw THEN hookData ELSE r.value

\* fetchReports / fetchStats up to the await: setLoading(true),
\* setError(null), request issued.  Called by the mount effect and by
\* refetch.
HookFetchStarts ==
    /\ hookLoading' = TRUE
    /\ hookError' = Null
    /\ hookIssued' = hookIssued + 1
    /\ hookFetches' = Append(hookFetches, hookIssued + 1)

refetch ==
    /\ HookFetchStarts
    /\ lastOp' = [op |-> "refetch"]
    /\ UNCHANGED <<appVars, hmVars, tableVars, connVars, statsVars, chatVars, hook, hookData>>

\* The await of the i-th fetch in flight settles: try / catch / finally.
HookFetchSettles(i, r) ==
    /\ i \in 1..Len(hookFetches)
    /\ hookData' = HookDataAfter(r)
    /\ hookError' = IF r.throw THEN HookErrorMessage(hook, r) ELSE hookError
    /\ hookLoading' = FALSE
    /\ hookFetches' = RemoveAt(hookFetches, i)
    /\ lastOp' = [op |-> "fetchSettled", failed |-> r.throw,
                  outcome |-> r, before |-> hookData, id |-> hookFetches[i]]
    /\ UNCHANGED <<appVars, hmVars, tableVars, connVars, statsVars, chatVars, hook, hookIssued>>

(***************************************************************************)
(* useBackendConnection.                                                   *)
(***************************************************************************)
\* No instance of the hook is mounted.
ConnInit ==
    /\ connMounted = FALSE
    /\ connIsConnected = FALSE
    /\ connChecking = TRUE
    /\ connInterval = FALSE
    /\ connPending = 0

\* The owner mounts: useState(false), useState(true), then the mount effect
\* calls checkConnection() (setChecking(true), the probe is awaited) and
\* registers the interval.
ConnMount ==
    /\ ~connMounted
    /\ connMounted' = TRUE
    /\ connIsConnected' = FALSE
    /\ connChecking' = TRUE
    /\ connInterval' = TRUE
    /\ connPending' = 1
    /\ lastOp' = [op |-> "connMount"]
    /\ UNCHANGED <<appVars, hmVars, statsVars, tableVars, hookVars, chatVars>>

\* The cleanup of the mount effect as it would be without clearInterval.
ConnUnmount_KeepsInterval ==
    /\ connMounted
    /\ connMounted' = FALSE
    /\ connIsConnected' = FALSE
    /\ connChecking' = TRUE
    /\ connPending' = 0
    /\ lastOp' = [op |-> "connUnmount"]
    /\ UNCHANGED <<connInterval, appVars, hmVars, statsVars, tableVars, hookVars, chatVars>>

\* The owner unmounts: the cleanup clears the interval, the cells are gone
\* and the state updates of the calls in flight reach no instance.
ConnUnmount ==
    /\ connMounted
    /\ connMounted' = FALSE
    /\ connIsConnected' = FALSE
    /\ connChecking' = TRUE
    /\ connInterval' = FALSE
    /\ connPending' = 0
    /\ lastOp' = [op |-> "connUnmount"]
    /\ UNCHANGED <<appVars, hmVars, statsVars, tableVars, hookVars, chatVars>>

\* The interval callback: checkConnection up to its await.
ConnTick ==
    /\ connInterval
    /\ connChecking' = TRUE
    /\ connPending' = connPending + 1
    /\ lastOp' = [op |-> "connTick"]
    /\ UNCHANGED <<connMounted, connIsConnected, connInterval,
                   appVars, hmVars, statsVars, tableVars, hookVars, chatVars>>

\* The await of apiService.checkConnection() settles: setIsConnected with
\* its value (false in the catch), and setChecking(false) in the finally.
ConnProbeSettles(response) ==
    LET outcome == checkConnectionOutcome(response)
    IN /\ connMounted
       /\ connPending > 0
       /\ connIsConnected' = IF outcome.throw THEN FALSE ELSE outcome.value
       /\ connChecking' = FALSE
       /\ connPending' = connPending - 1
       /\ lastOp' = [op |-> "connProbeSettled"]
       /\ UNCHANGED <<connMounted, connInterval,
                      appVars, hmVars, statsVars, tableVars, hookVars, chatVars>>

(***************************************************************************)
(* ChatbotPage.                                                            *)
(***************************************************************************)
\* Texts are sequences of characters: a blank (standing for every character
\* trim removes) or a visible character.
Whitespace == {" "}
Chars == Whitespace \cup {"a"}
Texts == UNION {[1..n -> Chars] : n \in 0..MaxText}

\* String.prototype.trim
RECURSIVE TrimStart(_)
TrimStart(text) ==
    IF text = <<>> THEN text
    ELSE IF Head(text) \in Whitespace THEN TrimStart(Tail(text))
    ELSE text
RECURSIVE TrimEnd(_)
TrimEnd(text) ==
    IF text = <<>> THEN text
    ELSE IF text[Len(text)] \in Whitespace THEN TrimEnd(SubSeq(text, 1, Len(text) - 1))
    ELSE text
Trim(text) == TrimEnd(TrimStart(text))

\* The introductory message the transcript is seeded with, the apology of
\* the catch branch, and the replies of the chatbot.
IntroMessage == [sender |-> "bot", text |-> "Hello! I'm your complaint data assistant."]
ApologyText == "Sorry, I encountered an error. Please try again."
BotReplies == {"There are 5 complaints."}

\* The quickQuestions buttons (any visible text).
QuickQuestions == {<<"a">>}

\* How the POST /chatbot/message can settle: fetch rejects, or a response
\* with a status and a body holding the reply.
ChatResponses ==
    {NetworkFailure}
    \cup {[net |-> "response", status |-> st, reply |-> rp] : st \in StatusSet, rp \in BotReplies}

\* onChange of the textarea (disabled while isLoading).
SetInputMessage(text) ==
    /\ ~isLoading
    /\ text # inputMessage
    /\ inputMessage' = text
    /\ lastOp' = [op |-> "setInputMessage"]
    /\ UNCHANGED <<appVars, hmVars, tableVars, connVars, statsVars, hookVars, messages, isLoading,
                   chatRequest, chatSent>>

handleQuickQuestion(question) ==
    /\ inputMessage' = question
    /\ lastOp' = [op |-> "handleQuickQuestion"]
    /\ UNCHANGED <<appVars, hmVars, tableVars, connVars, statsVars, hookVars, messages, isLoading,
                   chatRequest, chatSent>>

\* The guard of sendMessage with the isLoading test left out.
SendRejected_IgnoresLoading == Trim(inputMessage) = <<>>

\* The guard of sendMessage with the trim left out.
SendRejected_NoTrim == inputMessage = <<>> \/ isLoading

\* if (!inputMessage.trim() || isLoading) return;
SendRejected == Trim(inputMessage) = <<>> \/ isLoading

\* The body of the chat request with the introductory message left out of
\* the history.
ChatRequestBody_WithoutIntro(text, transcript) ==
    [message |-> text, chat_history |-> Tail(transcript)]

\* The body of the chat request: the input text and messages.map(...) over
\* the transcript of the render the call was made in (text and sender of
\* every message).
ChatRequestBody(text, transcript) ==
    [message |-> text,
     chat_history |-> [i \in 1..Len(transcript) |->
                          [sender |-> transcript[i].sender, text |-> transcript[i].text]]]

\* A call of sendMessage (Send button, or Enter in the textarea), up to its
\* await: nothing when the guard rejects it; otherwise the user message is
\* appended, the input cleared, isLoading set, and the request issued with
\* the text and the transcript of the render the call was made in.
sendMessage ==
    /\ IF SendRejected
       THEN UNCHANGED chatVars
       ELSE /\ messages' = Append(messages, [sender |-> "user", text |-> inputMessage])
            /\ inputMessage' = <<>>
            /\ isLoading' = TRUE
            /\ chatRequest' = ChatRequestBody(inputMessage, messages)
            /\ chatSent' = chatSent + 1
    /\ lastOp' = [op |-> "sendMessage", accepted |-> ~SendRejected]
    /\ UNCHANGED <<appVars, hmVars, tableVars, connVars, statsVars, hookVars>>

\* isLoading after the request has settled if setIsLoading(false) stood at
\* the end of the try block only.
IsLoadingAfterChat_TryOnly(failed) == failed

\* isLoading after the request has settled: finally { setIsLoading(false) }.
IsLoadingAfterChat(failed) == FALSE

\* The settling of the chat request as it would be if the reply were
\* appended to the messages of the render sendMessage ran in
\* (setMessages([...messages, botMessage])) instead of to `prev`.
ChatSettles_StaleAppend(response) ==
    LET failed == response.net = "rejected" \/ ~ResponseOk(response.status)
    IN /\ chatRequest # Null
       /\ messages' = Append(SubSeq(messages, 1, Len(messages) - 1),
                             [sender |-> "bot",
                              text |-> IF failed THEN ApologyText ELSE response.reply])
       /\ isLoading' = IsLoadingAfterChat(failed)
       /\ chatRequest' = Null
       /\ lastOp' = [op |-> "chatSettled", failed |-> failed, response |-> response]
       /\ UNCHANGED <<appVars, hmVars, tableVars, connVars, statsVars, hookVars, inputMessage, chatSent>>

\* The await of the chat request settles: the reply is appended, or the
\* apology when fetch rejected or the status is not ok; finally isLoading
\* is reset.
ChatSettles(response) ==
    LET failed == response.net = "rejected" \/ ~ResponseOk(response.status)
    IN /\ chatRequest # Null
       /\ messages' = Append(messages,
                             [sender |-> "bot",
                              text |-> IF failed THEN ApologyText ELSE response.reply])
       /\ isLoading' = IsLoadingAfterChat(failed)
       /\ chatRequest' = Null
       /\ lastOp' = [op |-> "chatSettled", failed |-> failed, response |-> response]
       /\ UNCHANGED <<appVars, hmVars, tableVars, connVars, statsVars, hookVars, inputMessage, chatSent>>

(***************************************************************************)
(* ChatbotPage.formatComplaintText.  A reply is a sequence of lines, a     *)
(* line being one of: the header "**Complaint N:**" (the delimiter the     *)
(* text is split at), a line holding "**Complaint" without being a header  *)
(* (such as "**Complaints found:**"), a line of other text, or a field     *)
(* line holding one labelled value, written with a bullet                  *)
(* ("* **Label:** value") or bare ("**Label:** value").                    *)
(***************************************************************************)
ReplyLine(k, form, label, value) ==
    [k |-> k, form |-> form, label |-> label, value |-> value]
HeaderLine == ReplyLine("header", "", "", "")
MarkerLine == ReplyLine("marker", "", "", "")
TextLine == ReplyLine("text", "", "", "")
FieldLine(form, label, value) == ReplyLine("field", form, label, value)

\* The labels of the else-if chain and the complaintData key each sets.
ReplyLabels == {"Report ID", "Category", "Priority", "Description", "Status", "Created At"}
ComplaintDataKey(label) ==
    CASE label = "Report ID" -> "reportId"
      [] label = "Category" -> "category"
      [] label = "Priority" -> "priority"
      [] label = "Description" -> "description"
      [] label = "Status" -> "status"
      [] label = "Created At" -> "createdAt"
ComplaintDataKeys == {ComplaintDataKey(l) : l \in ReplyLabels}

\* The lines and the replies of the model.
ReplyLines ==
    {HeaderLine, MarkerLine, TextLine}
    \cup {FieldLine("bullet", l, "a") : l \in ReplyLabels}
    \cup {FieldLine("bullet", "Report ID", "b"), FieldLine("bare", "Report ID", "a")}
ReplyTexts == UNION {[1..n -> ReplyLines] : n \in 0..MaxReplyLines}

\* text.includes("**Complaint") and text.includes("Report ID:")
IncludesComplaintMarker(text) ==
    \E i \in 1..Len(text) : text[i].k \in {"header", "marker"}
IncludesReportIdLabel(text) ==
    \E i \in 1..Len(text) : text[i].k = "field" /\ text[i].label = "Report ID"

\* text.split(/\*\*Complaint \d+:\*\*/): the parts between the headers, one
\* more than there are headers.
RECURSIVE SplitAtHeaders(_, _, _)
SplitAtHeaders(text, i, parts) ==
    IF i > Len(text) THEN parts
    ELSE IF text[i].k = "header"
    THEN SplitAtHeaders(text, i + 1, Append(parts, <<>>))
    ELSE SplitAtHeaders(text, i + 1,
                        [parts EXCEPT ![Len(parts)] = Append(parts[Len(parts)], text[i])])

\* line.replace(/^\*\s*/, "").trim() includes "**label:**".  The replace
\* removes one leading asterisk and the blanks after it: the bullet of a
\* bulleted line, but the first asterisk of the bold mark of a bare line,
\* which then holds "*label:**" only.
CleanLineIncludesLabel(line, label) ==
    line.k = "field" /\ line.label = label /\ line.form = "bullet"

\* lines.forEach(...): the complaintData object of one part; a key no line
\* has set is undefined.
RECURSIVE ParseComplaint(_, _, _)
ParseComplaint(lines, i, complaintData) ==
    IF i > Len(lines) THEN complaintData
    ELSE IF \E l \in ReplyLabels : CleanLineIncludesLabel(lines[i], l)
    THEN ParseComplaint(lines, i + 1,
                        [complaintData EXCEPT ![ComplaintDataKey(lines[i].label)] =
                             Str(lines[i].value)])
    ELSE ParseComplaint(lines, i + 1, complaintData)
EmptyComplaintData == [key \in ComplaintDataKeys |-> Undefined]

\* formatComplaintText: the listing (intro and one entry per part after the
\* first) when the text holds both marks, the text itself otherwise.
formatComplaintText(text) ==
    IF IncludesComplaintMarker(text) /\ IncludesReportIdLabel(text)
    THEN LET parts == SplitAtHeaders(text, 1, <<<<>>>>)
         IN [kind |-> "listing",
             intro |-> parts[1],
             entries |-> [n \in 1..(Len(parts) - 1) |->
                              ParseComplaint(parts[n + 1], 1, EmptyComplaintData)]]
    ELSE [kind |-> "text", text |-> text]

\* A bot message of the transcript is rendered: formatComplaintText is
\* applied to its text.
RenderReply ==
    /\ lastOp.op = "botReply"
    /\ lastOp' = [op |-> "formatComplaintText", text |-> lastOp.text,
                  result |-> formatComplaintText(lastOp.text)]
    /\ UNCHANGED <<appVars, hmVars, tableVars, connVars, statsVars, hookVars, chatVars>>

(***************************************************************************)
(* Initial states and specifications.                                      *)
(***************************************************************************)
\* The App showing the given tab with no complaint selected, the views of
\* that tab just mounted: their cells as useState initialises them and their
\* mount fetches pending.
AppShowing(tab) ==
    /\ activeTab = tab
    /\ selectedComplaint = Null
    /\ locations = <<>>
    /\ loading = TRUE
    /\ isConnected = FALSE
    /\ filterOptions = Null
    /\ selectedCategory = ""
    /\ selectedPriority = ""
    /\ selectedDepartment = ""
    /\ selectedStatus = ""
    /\ popupComplaint = Null
    /\ loads = IF HeatmapShown(tab, Null)
               THEN <<NewLoad("mount", FALSE, EmptySelection, TRUE)>>
               ELSE <<>>
    /\ firstRequest = Null
    /\ refreshInterval = HeatmapShown(tab, Null)
    /\ ConnInit
    /\ stats = Null
    /\ statsLoading = TRUE
    /\ statsError = Null
    /\ statsPending = StatsShown(tab, Null)
    /\ tableReports = <<>>
    /\ tableLoading = TRUE
    /\ tableError = ""
    /\ tablePending = TableShown(tab, Null)

\* The App after its first render and effects: useState("home").
AppInit == AppShowing("home")

\* A hook instance h after its first render and mount effect.
HookInit(h) ==
    /\ hook = h
    /\ hookData = HookInitialData(h)
    /\ hookLoading = TRUE
    /\ hookError = Null
    /\ hookFetches = <<1>>
    /\ hookIssued = 1

\* A ChatbotPage after its first render.
ChatInit ==
    /\ messages = <<IntroMessage>>
    /\ inputMessage = <<>>
    /\ isLoading = FALSE
    /\ chatRequest = Null
    /\ chatSent = 0

Init ==
    /\ AppInit
    /\ HookInit("useReports")
    /\ ChatInit
    /\ lastOp = [op |-> "mount"]

\* Steps of the App's own handlers.
AppSteps ==
    \/ \E tab \in Tabs : handleTabChange(tab)
    \/ handleBackToDashboard
    \/ \E c \in TableComplaints : ViewComplaint(c)
    \/ \E r \in Responses({Array(<<ReportPool[3]>>)}) : TableSettle(r)
    \/ TableRetry

\* Steps in which an await of an invocation in flight settles, with the
\* payloads /reports/by-location answers with bounded.
SettleSteps(payloads) ==
    \/ \E i \in 1..Len(loads) : \E r \in ProbeResponses : ProbeSettles(i, r)
    \/ \E i \in 1..Len(loads) : \E r \in Responses({FilterOptionsData}) : OptionsSettle(i, r)
    \/ \E i \in 1..Len(loads) : \E r \in Responses(payloads) : LocationsSettle(i, r)

\* Steps that call loadReportLocations again, with the number of
\* invocations in flight and the filter dimensions the user changes bounded.
ReloadSteps(maxLoads) ==
    /\ Len(loads) < maxLoads
    /\ \/ TimerTick
       \/ refreshLocations
FilterSteps(dims, maxLoads) ==
    /\ Len(loads) < maxLoads
    /\ \/ \E d \in dims : \E v \in Available[d] \cup {""} : SetFilter(d, v)
       \/ clearFilters

\* Steps of the popup.
PopupSteps ==
    \/ \E l \in Range(locations) : handleMarkerClick(l)
    \/ ClosePopup
    \/ handleViewFullDetails

\* Location payloads of the specifications that do not vary them.
FewPayloads == {Array(<<>>), Array(<<LocationPool[1]>>)}

\* Spec: the App with its heatmap view, with overlapping invocations; filter
\* changes on the category dimension, few payloads.
Next ==
    \/ AppSteps
    \/ SettleSteps(FewPayloads)
    \/ ReloadSteps(MaxInflight)
    \/ FilterSteps({"category"}, MaxInflight)
    \/ PopupSteps
Spec == Init /\ [][Next]_vars

\* FilterSpec: the heatmap view under every combination of the four filter
\* dimensions.
FilterNext ==
    \/ \E tab \in Tabs : handleTabChange(tab)
    \/ SettleSteps({Array(<<>>)})
    \/ ReloadSteps(MaxFilterLoads)
    \/ FilterSteps(DimSet, MaxFilterLoads)
FilterSpec == Init /\ [][FilterNext]_vars

\* LocationsSpec: the heatmap view under every location payload, no filter
\* selected.
LocationsNext ==
    \/ \E tab \in Tabs : handleTabChange(tab)
    \/ SettleSteps(LocationPayloads)
    \/ ReloadSteps(MaxLocationLoads)
LocationsSpec == Init /\ [][LocationsNext]_vars

\* StatsSpec: the App with its statistics view, and the heatmap view the home
\* tab renders above it.
StatsNext ==
    \/ AppSteps
    \/ \E r \in Responses(StatsPayloads) : StatsSettle(r)
    \/ StatsRetry
    \/ SettleSteps(FewPayloads)
StatsSpec == Init /\ [][StatsNext]_vars

\* A caller awaits one Gateway operation whose request settles with the
\* given response; the call and its outcome are recorded.
GatewayCall(operation, response) ==
    /\ lastOp' = [op |-> "gatewayCall", operation |-> operation,
                  response |-> response,
                  outcome |-> GatewayOutcome(operation, response)]
    /\ UNCHANGED <<appVars, hmVars, tableVars, connVars, statsVars, hookVars, chatVars>>

\* GatewaySpec: the operations of the ApiService on their own, each under
\* every response.
GatewayNext ==
    \E operation \in GatewayOperations : \E response \in GatewayResponses :
        GatewayCall(operation, response)
GatewaySpec == Init /\ [][GatewayNext]_vars

\* FormatSpec: formatComplaintText on its own, under every reply.
FormatSpecInit ==
    /\ AppShowing("chatbot")
    /\ HookInit("useReports")
    /\ ChatInit
    /\ \E text \in ReplyTexts : lastOp = [op |-> "botReply", text |-> text]
FormatNext == RenderReply
FormatSpec == FormatSpecInit /\ [][FormatNext]_vars

\* TableSpec: the App with its ComplaintsTable under every report list, and
\* the views of the other tabs the user passes through.
TableNext ==
    \/ \E tab \in Tabs : handleTabChange(tab)
    \/ handleBackToDashboard
    \/ \E c \in TableComplaints : ViewComplaint(c)
    \/ \E r \in Responses({Array(l) : l \in ReportLists}) : TableSettle(r)
    \/ TableRetry
    \/ SettleSteps(FewPayloads)
    \/ \E r \in Responses(StatsPayloads) : StatsSettle(r)
TableSpec == Init /\ [][TableNext]_vars

\* HookSpec: one instance of either fetch-state hook, with the number of
\* fetches it starts bounded.
HookSpecInit ==
    /\ AppInit
    /\ \E h \in Hooks : HookInit(h)
    /\ ChatInit
    /\ lastOp = [op |-> "mount"]
HookNext ==
    \/ hookIssued < MaxHookFetches /\ refetch
    \/ \E i \in 1..Len(hookFetches) : \E r \in HookOutcomes(hook) : HookFetchSettles(i, r)
HookSpec == HookSpecInit /\ [][HookNext]_vars

\* PopupSpec: the heatmap view with its popup, one load at a time, under
\* payloads that add and remove locations.
PopupPayloads ==
    {Array(<<>>), Array(<<LocationPool[1]>>), Array(<<LocationPool[1], LocationPool[2]>>)}
PopupNext ==
    \/ AppSteps
    \/ SettleSteps(PopupPayloads)
    \/ ReloadSteps(MaxLocationLoads)
    \/ PopupSteps
PopupSpec == Init /\ [][PopupNext]_vars

\* TimerSpec: the two intervals.  The App with its heatmap view mounted and
\* unmounted by tab changes, and a useBackendConnection instance mounted and
\* unmounted by its owner, each with its timer and its requests settling.
TimerNext ==
    \/ \E tab \in Tabs : handleTabChange(tab)
    \/ Len(loads) < MaxInflight /\ TimerTick
    \/ SettleSteps(FewPayloads)
    \/ ConnMount
    \/ ConnUnmount
    \/ connPending < MaxConnProbes /\ ConnTick
    \/ \E response \in ProbeResponses : ConnProbeSettles(response)
TimerSpec == Init /\ [][TimerNext]_vars

\* ChatSpec: the ChatbotPage of the chatbot tab, from its mount on, with the
\* number of messages sent bounded.
ChatSpecInit ==
    /\ AppShowing("chatbot")
    /\ HookInit("useReports")
    /\ ChatInit
    /\ lastOp = [op |-> "mount"]
ChatNext ==
    \/ \E text \in Texts : SetInputMessage(text)
    \/ \E q \in QuickQuestions : handleQuickQuestion(q)
    \/ chatSent < MaxSends /\ sendMessage
    \/ \E r \in ChatResponses : ChatSettles(r)
ChatSpec == ChatSpecInit /\ [][ChatNext]_vars

(***************************************************************************)
(* Properties of the App and of the heatmap view.                          *)
(***************************************************************************)
\* C1: after handleTabChange(tab), for every tab and every prior state, the
\* global selected complaint is null and activeTab equals tab, so the
\* complaint detail view is not shown.
C1_TabChangeClearsSelection ==
    lastOp.op = "handleTabChange" =>
        /\ selectedComplaint = Null
        /\ activeTab = lastOp.tab
        /\ ~DetailShown
\* A tab change made while a complaint's detail view was shown.
C1_Witness ==
    /\ lastOp.op = "handleTabChange"
    /\ lastOp.hadSelection
    /\ activeTab = "chatbot"

\* C2: the first location request issued after the heatmap view mounts
\* carries no filter parameters.
C2_FirstRequestUnfiltered ==
    (Mounted /\ firstRequest # Null) =>
        /\ firstRequest.params = <<>>
        /\ ~firstRequest.hasQuery
\* The mount invocation has just issued the view's first location request.
C2_Witness ==
    /\ Mounted
    /\ firstRequest # Null
    /\ lastOp.op = "optionsSettled"
    /\ Len(loads) = 1
    /\ loads[1].trigger = "mount"
    /\ loads[1].request = firstRequest

\* The request carries one parameter for each dimension selected in sel,
\* holding the selected value, and nothing else; it has a query string
\* exactly when some dimension is selected.
CarriesExactly(request, sel) ==
    /\ {p[1] : p \in Range(request.params)} = {d \in DimSet : sel[d] # ""}
    /\ \A p \in Range(request.params) : p[2] = sel[p[1]]
    /\ Len(request.params) = Cardinality({d \in DimSet : sel[d] # ""})
    /\ request.hasQuery <=> (sel # EmptySelection)

\* C3: for every combination of the four filter values read by a
\* loadReportLocations(true) invocation, its location request holds a query
\* parameter for exactly the dimensions with a non-empty value, each with
\* that value, and no query string when all four are empty.
C3_QueryHoldsExactlySelectedDimensions ==
    \A i \in 1..Len(loads) :
        (loads[i].applyFilters /\ loads[i].request # Null) =>
            CarriesExactly(loads[i].request, loads[i].sel)
\* A filtered request issued with two dimensions selected and two not.
C3_Witness ==
    \E i \in 1..Len(loads) :
        /\ loads[i].applyFilters
        /\ loads[i].request # Null
        /\ loads[i].sel.category # ""
        /\ loads[i].sel.priority = ""
        /\ loads[i].sel.department = ""
        /\ loads[i].sel.status # ""
        /\ Len(loads[i].request.params) = 2
\* A filtered request issued with nothing selected.
C3_WitnessEmpty ==
    \E i \in 1..Len(loads) :
        /\ loads[i].trigger = "refresh"
        /\ loads[i].request # Null
        /\ loads[i].sel = EmptySelection

\* C4: setting one filter dimension starts a new load whose location request
\* carries the full combination of the four selected values as they are
\* after the change, and a request issued by such a load carries the
\* combination the load was started with.
C4_FilterChangeReloadsWithFullCombination ==
    /\ lastOp.op = "setFilter" =>
           /\ loads # <<>>
           /\ loads[Len(loads)].trigger = "filter"
           /\ loads[Len(loads)].pc = "probe"
           /\ loads[Len(loads)].sel = CurrentSelection
           /\ CarriesExactly(LocationRequestOf(loads[Len(loads)]), CurrentSelection)
    /\ \A i \in 1..Len(loads) :
           (loads[i].trigger = "filter" /\ loads[i].request # Null) =>
               CarriesExactly(loads[i].request, loads[i].sel)
\* The priority was set while a category was selected.
C4_Witness ==
    /\ lastOp.op = "setFilter"
    /\ lastOp.dim = "priority"
    /\ selectedCategory # ""
    /\ selectedPriority # ""
\* A load started by a filter change has issued a request with three
\* parameters.
C4_WitnessIssued ==
    \E i \in 1..Len(loads) :
        /\ loads[i].trigger = "filter"
        /\ loads[i].request # Null
        /\ Len(loads[i].request.params) = 3

\* C5: every auto-refresh tick issues a location request that carries the
\* filter selection active at the time of the tick.
C5_TickCarriesActiveSelection ==
    lastOp.op = "tick" =>
        CarriesExactly(LocationRequestOf(loads[Len(loads)]), CurrentSelection)

\* Both coordinates of a location are finite numeric values.
FiniteCoordinates(loc) == IsFiniteNumber(loc.lat) /\ IsFiniteNumber(loc.lng)

\* C6: after a successful location load the view's locations are exactly the
\* fetched locations whose latitude and longitude are both finite numbers.
C6_RenderedSetIsFiniteSubset ==
    (lastOp.op = "locationsSettled" /\ ~lastOp.failed) =>
        locations = SelectSeq(lastOp.fetched, FiniteCoordinates)

C7_FailedFetchKeepsData ==
    (lastOp.op = "fetchSettled" /\ lastOp.failed) =>
        /\ hookData = lastOp.before
        /\ hookError = (IF lastOp.outcome.isError
                        THEN Str(lastOp.outcome.message)
                        ELSE Str(HookFallbackMessage(hook)))
        /\ hookError # Str("")
        /\ hookLoading = FALSE

\* A refetch of useReports has failed with an Error after two reports had
\* been loaded, and the two reports are still held.
C7_Witness ==
    /\ hook = "useReports"
    /\ lastOp.op = "fetchSettled"
    /\ lastOp.failed
    /\ lastOp.outcome.isError
    /\ lastOp.before = Array(<<"r1", "r2">>)
    /\ hookData = Array(<<"r1", "r2">>)
    /\ hookError = Str("HTTP error! status: 500")

\* A refetch of useReportStats has failed with a value that is not an Error
\* after statistics had been loaded.
C7_WitnessFallback ==
    /\ hook = "useReportStats"
    /\ lastOp.op = "fetchSettled"
    /\ lastOp.failed
    /\ ~lastOp.outcome.isError
    /\ hookData = Object("statsA")
    /\ hookError = Str("Failed to fetch statistics")

\* C9: once the statistics fetch of the mount effect has failed and loading
\* has ended, the statistics view renders the four cards with zero values
\* and the category chart with the single "No Data" category of share 100.
C9_FailedStatsRendersZeroCards ==
    (StatsMounted /\ lastOp.op = "statsSettled" /\ lastOp.failed /\ ~statsLoading) =>
        /\ StatisticsRender.view = "cards"
        /\ StatisticsRender.statsCards = <<Num(0), Num(0), Num(0), Str("0.0 days")>>
        /\ StatisticsRender.categories = <<[name |-> "No Data", value |-> 100]>>

\* What the code does instead: after a failed statistics fetch the fallback
\* object is stored, but the view renders the error branch with the message.
C9_FailedStatsRendersErrorBranch ==
    (StatsMounted /\ lastOp.op = "statsSettled" /\ lastOp.failed) =>
        /\ ~statsLoading
        /\ stats = FallbackStats
        /\ StatisticsRender = [view |-> "error", message |-> Str("Failed to load statistics")]
C9_WitnessFailed ==
    StatsMounted /\ lastOp.op = "statsSettled" /\ lastOp.failed /\ ~statsLoading

\* C10: a call of sendMessage made while the input is empty or
\* whitespace-only, or while isLoading is true, changes neither the
\* transcript, nor the input text, nor isLoading, and sends no request.
C10_RejectedSendIsNoOp ==
    [][(lastOp'.op = "sendMessage" /\ (Trim(inputMessage) = <<>> \/ isLoading))
           => UNCHANGED chatVars]_vars

\* sendMessage has been called (Enter in the textarea) on a whitespace-only
\* input and was rejected: the input is still there and nothing is in flight.
C10_Witness ==
    /\ lastOp.op = "sendMessage"
    /\ ~lastOp.accepted
    /\ inputMessage # <<>>
    /\ Trim(inputMessage) = <<>>
    /\ ~isLoading
    /\ chatRequest = Null

\* sendMessage has been called on a visible input while a request is
\* outstanding and was rejected.
C10_WitnessLoading ==
    /\ lastOp.op = "sendMessage"
    /\ ~lastOp.accepted
    /\ Trim(inputMessage) # <<>>
    /\ isLoading
    /\ chatRequest # Null

(***************************************************************************)
(* Properties of the Gateway operations.                                   *)
(***************************************************************************)
\* C11: checkConnection never raises: for every outcome of its request it
\* resolves to a boolean, true exactly when a response arrived whose status
\* is 2xx, false on any other status and on a network failure.
C11_HealthProbeNeverRaises ==
    (lastOp.op = "gatewayCall" /\ lastOp.operation = "checkConnection") =>
        /\ ~lastOp.outcome.throw
        /\ lastOp.outcome.value \in BOOLEAN
        /\ lastOp.outcome.value =
               (/\ lastOp.response.net = "response"
                /\ lastOp.response.status \in 200..299)

\* checkConnection has been called while the endpoint was unreachable and
\* resolved to false.
C11_Witness ==
    /\ lastOp.op = "gatewayCall"
    /\ lastOp.operation = "checkConnection"
    /\ lastOp.response = NetworkFailure
    /\ lastOp.outcome = Return(FALSE)

\* checkConnection has resolved to true for a 2xx status other than 200.
C11_WitnessTrue ==
    /\ lastOp.op = "gatewayCall"
    /\ lastOp.operation = "checkConnection"
    /\ lastOp.response.net = "response"
    /\ lastOp.response.status = 299
    /\ lastOp.outcome = Return(TRUE)

\* Whether the envelope-wrapped call recorded in lastOp raised when the
\* status is non-2xx or success is false, and resolved with the envelope's
\* data otherwise.
RaisesOrResolvesWithData ==
    IF ~ResponseOk(lastOp.response.status) \/ ~lastOp.response.body.success
    THEN lastOp.outcome.throw /\ lastOp.outcome.isError /\ lastOp.outcome.message # ""
    ELSE lastOp.outcome = Return(lastOp.response.body.data)

C16_WitnessLocations ==
    /\ lastOp.op = "gatewayCall"
    /\ lastOp.operation = "getReportsByLocation"
    /\ lastOp.response.net = "response"
    /\ lastOp.response.status = 500
    /\ lastOp.outcome = Return(Array(<<>>))

(***************************************************************************)
(* Properties of formatComplaintText.                                      *)
(***************************************************************************)
\* The sections of a reply as a reader sees them: the lines after each
\* "Complaint N:" header up to the next one.
SectionsOf(text) == Tail(SplitAtHeaders(text, 1, <<<<>>>>))

\* The entry holds the values of the section: for each of the five labels,
\* the value of a field line of the section with that label, and nothing
\* when the section has no such line.
ClaimedLabels == {"Report ID", "Category", "Priority", "Status", "Description"}
EntryHoldsSection(entry, section) ==
    \A l \in ClaimedLabels :
        LET values == {section[i].value : i \in {j \in 1..Len(section) :
                           section[j].k = "field" /\ section[j].label = l}}
        IN IF values = {} THEN entry[ComplaintDataKey(l)] = Undefined
           ELSE \E v \in values : entry[ComplaintDataKey(l)] = Str(v)

\* C12: for a reply with k "Complaint N:" sections with labelled fields
\* formatComplaintText gives exactly k entries in order, each holding the
\* labelled values of its own section (a missing field is absent); a reply
\* without sections is returned as the verbatim text.
C12_ListingHasOneEntryPerSection ==
    lastOp.op = "formatComplaintText" =>
        LET sections == SectionsOf(lastOp.text)
            HasField(section) == \E i \in 1..Len(section) : section[i].k = "field"
        IN /\ Len(sections) = 0 =>
                  lastOp.result = [kind |-> "text", text |-> lastOp.text]
           /\ (Len(sections) > 0 /\ \A n \in 1..Len(sections) : HasField(sections[n])) =>
                  /\ lastOp.result.kind = "listing"
                  /\ Len(lastOp.result.entries) = Len(sections)
                  /\ \A n \in 1..Len(sections) :
                         EntryHoldsSection(lastOp.result.entries[n], sections[n])

\* The same for the replies whose field lines are all bulleted and which
\* hold a Report ID field: what the code does agrees with the claim there.
C12_BulletedListingHasOneEntryPerSection ==
    (/\ lastOp.op = "formatComplaintText"
     /\ IncludesReportIdLabel(lastOp.text)
     /\ \A i \in 1..Len(lastOp.text) : lastOp.text[i] # MarkerLine
     /\ \A i \in 1..Len(lastOp.text) :
            lastOp.text[i].k = "field" => lastOp.text[i].form = "bullet")
    => C12_ListingHasOneEntryPerSection
C12_WitnessTwoSections ==
    /\ lastOp.op = "formatComplaintText"
    /\ lastOp.text = <<HeaderLine, FieldLine("bullet", "Report ID", "a"),
                       HeaderLine, FieldLine("bullet", "Report ID", "b")>>
    /\ Len(lastOp.result.entries) = 2
    /\ lastOp.result.entries[1].reportId = Str("a")
    /\ lastOp.result.entries[2].reportId = Str("b")

(***************************************************************************)
(* Properties of the ComplaintsTable.                                      *)
(***************************************************************************)
\* C13: after the table's fetch has succeeded the table is shown with one
\* data row per report the backend returned, in order; when the list is
\* empty it holds exactly the "No complaints found" row and no data row.
C13_TableShowsOneRowPerReport ==
    (TableMounted /\ lastOp.op = "tableSettled" /\ ~lastOp.failed) =>
        /\ TableRender.view = "table"
        /\ LET rows == TableRender.rows
               dataRows == {i \in 1..Len(rows) : rows[i].row = "data"}
           IN IF Len(tableReports) = 0
              THEN /\ rows = <<[row |-> "placeholder", text |-> "No complaints found"]>>
                   /\ dataRows = {}
              ELSE /\ Len(rows) = Len(tableReports)
                   /\ dataRows = 1..Len(rows)
                   /\ \A i \in dataRows :
                          rows[i].complaint.id = tableReports[i].report_id

\* The fetch has succeeded with an empty list: one placeholder row.
C13_Witness ==
    /\ TableMounted
    /\ lastOp.op = "tableSettled"
    /\ ~lastOp.failed
    /\ tableReports = <<>>
    /\ Len(TableRender.rows) = 1

\* The fetch has succeeded with two reports after a failed fetch and Retry.
C13_WitnessTwoRows ==
    /\ TableMounted
    /\ lastOp.op = "tableSettled"
    /\ ~lastOp.failed
    /\ Len(tableReports) = 2
    /\ Len(TableRender.rows) = 2

(***************************************************************************)
(* Properties of the App's rendering.                                      *)
(***************************************************************************)
\* The view each navigation tab stands for.
ViewOfTab ==
    [home |-> "Home", map |-> "Map", complaints |-> "ComplaintsTable",
     chatbot |-> "ChatbotPage", resources |-> "ResourcesPage"]

\* C14: in every reachable state of the App the rendered content is the
\* complaint detail view exactly when the selected complaint is non-null,
\* whatever the active tab; when it is null the content is the view of the
\* active tab.  The views that are not rendered hold no pending work.
C14_DetailShownIffSelected ==
    LET content == renderContent(activeTab, selectedComplaint)
    IN /\ activeTab \in Tabs
       /\ (content = "ComplaintDetails") <=> (selectedComplaint # Null)
       /\ selectedComplaint = Null => content = ViewOfTab[activeTab]
       /\ content \notin {"Home", "Map"} => loads = <<>>
       /\ content # "Home" => ~statsPending
       /\ content # "ComplaintsTable" => ~tablePending

\* The detail view is shown over the complaints tab.
C14_Witness ==
    /\ activeTab = "complaints"
    /\ selectedComplaint # Null
    /\ renderContent(activeTab, selectedComplaint) = "ComplaintDetails"

\* The detail view is shown over the map tab.
C14_WitnessMap ==
    /\ activeTab = "map"
    /\ selectedComplaint # Null
    /\ renderContent(activeTab, selectedComplaint) = "ComplaintDetails"

(***************************************************************************)
(* Properties of the chat view's requests.                                 *)
(***************************************************************************)
\* C15: within one ChatbotPage instance at most one chat request is
\* outstanding: a step that issues a request is taken only while none is
\* outstanding, and isLoading is true exactly while one is.
C15_SingleFlight ==
    [][/\ chatSent' # chatSent => (chatRequest = Null /\ chatRequest' # Null)
       /\ isLoading' = (chatRequest' # Null)]_vars

\* A second request has been issued, after the first one had settled with
\* its reply, and is now the only one outstanding.
C15_Witness ==
    /\ chatSent = 2
    /\ chatRequest # Null
    /\ isLoading
    /\ lastOp.op = "sendMessage"
    /\ lastOp.accepted
    /\ Len(messages) = 4

\* C17: an accepted send appends the user message at once and sets
\* isLoading; when the request fails (fetch rejects, or the status is not
\* 2xx) exactly one assistant message with the apology text is appended;
\* after success and after failure isLoading is false again.
C17_SendAppendsAndSettles ==
    [][/\ (lastOp'.op = "sendMessage" /\ lastOp'.accepted /\ chatSent' # chatSent) =>
              /\ messages' = Append(messages, [sender |-> "user", text |-> inputMessage])
              /\ isLoading'
       /\ (lastOp'.op = "chatSettled" /\ chatRequest # Null) =>
              /\ ~isLoading'
              /\ Len(messages') = Len(messages) + 1
              /\ SubSeq(messages', 1, Len(messages)) = messages
              /\ (\/ lastOp'.response.net = "rejected"
                  \/ lastOp'.response.status \notin 200..299) =>
                     messages'[Len(messages')] = [sender |-> "bot", text |-> ApologyText]
      ]_vars

\* A request has failed with a non-2xx status: the transcript ends with the
\* user message and the apology, and isLoading is false.
C17_Witness ==
    /\ lastOp.op = "chatSettled"
    /\ lastOp.response.net = "response"
    /\ lastOp.response.status = 500
    /\ Len(messages) = 3
    /\ messages[2].sender = "user"
    /\ messages[3] = [sender |-> "bot", text |-> ApologyText]
    /\ ~isLoading

\* C18: the chat_history of a chat request is the complete transcript as it
\* was just before the new user message was appended, the introductory
\* message included, and its message field is the submitted text.
C18_HistoryIsPriorTranscript ==
    chatRequest # Null =>
        /\ chatRequest.chat_history = SubSeq(messages, 1, Len(messages) - 1)
        /\ chatRequest.chat_history[1] = IntroMessage
        /\ messages[Len(messages)] = [sender |-> "user", text |-> chatRequest.message]

\* The second request is outstanding: its history holds the introductory
\* message, the first user message and the first reply.
C18_Witness ==
    /\ chatRequest # Null
    /\ Len(chatRequest.chat_history) = 3
    /\ chatRequest.chat_history[1] = IntroMessage
    /\ chatRequest.chat_history[2].sender = "user"
    /\ chatRequest.chat_history[3].sender = "bot"
    /\ Trim(chatRequest.message) # chatRequest.message

(***************************************************************************)
(* Properties of the fetch-state hooks under overlapping fetches.          *)
(***************************************************************************)
\* C19: whenever a successful response of useReports or useReportStats has
\* just been applied, the payload is stored, error is null and loading is
\* false, for every interleaving of the mount fetch and refetch calls.
C19_SuccessGivesSuccessState ==
    (lastOp.op = "fetchSettled" /\ ~lastOp.failed) =>
        /\ hookData = lastOp.outcome.value
        /\ hookError = Null
        /\ hookLoading = FALSE

\* What holds of a success in every interleaving: the payload is stored and
\* loading is false; error is null unless an overlapping fetch has failed
\* since the latest fetch was started.
C19_SuccessStoresPayload ==
    (lastOp.op = "fetchSettled" /\ ~lastOp.failed) =>
        /\ hookData = lastOp.outcome.value
        /\ hookLoading = FALSE

\* A success has been applied after an overlapping fetch had failed: the
\* payload is stored next to the other fetch's error message.
C19_WitnessStaleError ==
    /\ lastOp.op = "fetchSettled"
    /\ ~lastOp.failed
    /\ hookFetches = <<>>
    /\ hookData = lastOp.outcome.value
    /\ hookError # Null

\* C20: when overlapping fetches of one hook instance succeed, the data held
\* once all have resolved is the payload of the response that resolved
\* last, whichever of them was issued first.
C20_LastResolvedWins ==
    (/\ lastOp.op = "fetchSettled"
     /\ ~lastOp.failed
     /\ hookFetches = <<>>
     /\ hookIssued >= 2)
    => hookData = lastOp.outcome.value

\* The refetch resolved first and the mount fetch last, both with success
\* and with different payloads: the mount fetch's payload is held.
C20_Witness ==
    /\ lastOp.op = "fetchSettled"
    /\ ~lastOp.failed
    /\ lastOp.id = 1
    /\ hookIssued = 2
    /\ hookFetches = <<>>
    /\ hookError = Null
    /\ lastOp.before = Array(<<"r1">>)
    /\ hookData = Array(<<"r1", "r2">>)

\* The fetches resolved in the order they were issued in.
C20_WitnessInOrder ==
    /\ lastOp.op = "fetchSettled"
    /\ ~lastOp.failed
    /\ lastOp.id = 2
    /\ hookIssued = 2
    /\ hookFetches = <<>>
    /\ hookError = Null
    /\ lastOp.before = Array(<<"r1">>)
    /\ hookData = Array(<<"r1", "r2">>)


C21_WitnessCancelled ==
    /\ ~Mounted
    /\ ~connMounted
    /\ lastOp.op = "connUnmount"

\* The number of invocations suspended at the filter-options request.
OptionRequestsInFlight(ls) ==
    Cardinality({i \in 1..Len(ls) : ls[i].pc = "options"})
\* C22: once the filter options are held by the mounted heatmap view, no
\* step issues another filter-options request: the number of invocations
\* awaiting getFilterOptions never grows while filterOptions is set.
C22_OptionsFetchedOnce ==
    [][filterOptions # Null
           => OptionRequestsInFlight(loads') <= OptionRequestsInFlight(loads)]_vars

\* C23: a step in which the filter-options request of a load fails issues
\* that load's location request, leaves filterOptions and the locations as
\* they were and keeps the filter controls hidden while no options are held;
\* and whenever a load stores its locations in a view that holds no filter
\* options (every options request since the mount failed), the valid
\* locations of the response are stored and the controls are not shown.
C23_FailedOptionsStillLoadsLocations ==
    [][/\ (lastOp'.op = "optionsSettled" /\ lastOp'.failed /\ loads' # loads)
           => /\ Len(loads') = Len(loads)
              /\ \E i \in 1..Len(loads) :
                    /\ loads[i].pc = "options"
                    /\ loads'[i] = [loads[i] EXCEPT !.pc = "locations",
                                                   !.request = LocationRequestOf(loads[i])]
                    /\ \A j \in 1..Len(loads) : j # i => loads'[j] = loads[j]
              /\ filterOptions' = filterOptions
              /\ filterOptions = Null => ~FilterControlsShown'
              /\ UNCHANGED <<locations, loading, isConnected>>
       /\ (lastOp'.op = "locationsSettled" /\ loads' # loads /\ filterOptions = Null)
           => /\ locations' = validLocations(lastOp'.fetched)
              /\ filterOptions' = Null
              /\ ~FilterControlsShown'
              /\ ~loading']_vars
\* A load whose filter-options request failed has stored the locations it
\* fetched: locations are held, no filter options are.
C23_Witness ==
    /\ Mounted
    /\ lastOp.op = "locationsSettled"
    /\ ~lastOp.failed
    /\ filterOptions = Null
    /\ isConnected
    /\ locations # <<>>
    /\ ~FilterControlsShown
    /\ ~loading

\* C24: a marker click sets the popup selection to the clicked location and
\* changes nothing else, in the view or in the App; and while a heatmap is
\* shown the App's selected complaint is set only by the popup's "View Full
\* Details" action, to the complaint built from the popup's location, after
\* which the App shows the detail view.
C24_MarkerClickIsLocal ==
    [][/\ lastOp'.op = "handleMarkerClick"
           => /\ popupComplaint' \in Range(locations)
              /\ UNCHANGED <<appVars, locations, loading, isConnected, filterOptions,
                             selectedCategory, selectedPriority, selectedDepartment,
                             selectedStatus, loads, statsVars, tableVars>>
       /\ (Mounted /\ selectedComplaint' # Null)
           => /\ lastOp'.op = "handleComplaintClick"
              /\ popupComplaint # Null
              /\ selectedComplaint' = ComplaintFromLocation(popupComplaint)
              /\ activeTab' = activeTab
              /\ renderContent(activeTab', selectedComplaint') = "ComplaintDetails"]_vars
\* A marker has been clicked: the popup shows its location, no complaint is
\* selected in the App.
C24_Witness ==
    /\ lastOp.op = "handleMarkerClick"
    /\ Mounted
    /\ popupComplaint = LocationPool[2]
    /\ selectedComplaint = Null
\* "View Full Details" has been used on the map tab.
C24_WitnessDetails ==
    /\ lastOp.op = "handleComplaintClick"
    /\ activeTab = "map"
    /\ selectedComplaint = ComplaintFromLocation(LocationPool[1])
    /\ DetailShown

\* C25: after a load whose locations response is a 2xx success envelope with
\* data that is not an array, the Gateway's location operation has resolved
\* (not raised) with the empty list, and the heatmap holds no locations.
C25_UnexpectedShapeGivesEmptySet ==
    (lastOp.op = "locationsSettled" /\ ~lastOp.failed /\ ~lastOp.arrayPayload)
    => /\ ~lastOp.raised
       /\ lastOp.fetched = <<>>
       /\ locations = <<>>
\* A view that held a location has loaded again and received a payload that
\* is not an array.
C25_Witness ==
    /\ lastOp.op = "locationsSettled"
    /\ ~lastOp.failed
    /\ ~lastOp.arrayPayload
    /\ lastOp.before # <<>>
    /\ locations = <<>>

C26_WitnessSkipsOptions ==
    /\ lastOp.op = "probeSettled"
    /\ lastOp.connected
    /\ \E i \in 1..Len(loads) :
          loads[i].trigger = "refresh" /\ ~loads[i].optsNull /\ loads[i].pc = "locations"

\* C27: loading is true whenever a request started by the instance is in
\* flight: hookLoading while a fetch of the hook is in flight, and the
\* heatmap's loading while an invocation of loadReportLocations is.
C27_LoadingWhileInFlight ==
    /\ hookFetches # <<>> => hookLoading
    /\ (Mounted /\ loads # <<>>) => loading

\* The transcript starts with the introductory message, then alternates
\* user, bot, and ends with a user message exactly when a request is
\* outstanding.
WellFormedTranscript ==
    /\ Len(messages) >= 1
    /\ messages[1] = IntroMessage
    /\ \A k \in 2..Len(messages) :
          messages[k].sender = IF k % 2 = 0 THEN "user" ELSE "bot"
    /\ messages[Len(messages)].sender = "user" <=> chatRequest # Null
\* Every message of the transcript is still there, in its place and
\* unchanged, after the step.
TranscriptOnlyGrows ==
    /\ Len(messages') >= Len(messages)
    /\ \A k \in 1..Len(messages) : messages'[k] = messages[k]
\* C28: the chat transcript is well-formed in every reachable state (intro
\* message first, then user and assistant messages in strict alternation,
\* a user message last exactly while a request is outstanding) and
\* append-only in every step.
C28_TranscriptAppendOnlyAndWellFormed ==
    []WellFormedTranscript /\ [][TranscriptOnlyGrows]_vars
\* Two exchanges are complete, the second one answered with the apology.
C28_Witness ==
    /\ Len(messages) = 5
    /\ messages[3].text # ApologyText
    /\ messages[5].text = ApologyText
    /\ chatRequest = Null
\* A request is outstanding: the transcript ends with the user message.
C28_WitnessOutstanding ==
    /\ Len(messages) = 4
    /\ messages[4].sender = "user"
    /\ chatRequest # Null
    /\ isLoading

\* C29: after the detail view's back action no complaint is selected and
\* the active tab is "home", so the home view is shown, whichever tab was
\* active when the complaint was opened.
C29_BackLeadsHome ==
    lastOp.op = "handleBackToDashboard"
    => /\ selectedComplaint = Null
       /\ activeTab = "home"
       /\ renderContent(activeTab, selectedComplaint) = "Home"
\* Back from a complaint opened in the complaints table.
C29_Witness ==
    /\ lastOp.op = "handleBackToDashboard"
    /\ lastOp.from = "complaints"
    /\ activeTab = "home"
\* Back from a complaint opened in the popup of the map tab.
C29_WitnessMap ==
    /\ lastOp.op = "handleBackToDashboard"
    /\ lastOp.from = "map"
    /\ activeTab = "home"

\* C30: in every state of the heatmap view the popup selection is null or
\* one of the locations the view holds.
C30_PopupSelectionIsHeld ==
    popupComplaint = Null \/ popupComplaint \in Range(locations)
====
